---- MODULE Spec2Model ----
(***************************************************************************)
(* Model of article_system/data_model/data_init.py: the four-table schema  *)
(* (users, articles, comments, labels) with its ORM cascade rules, the     *)
(* schema creation entry point, the session factory, and the three query   *)
(* helpers get_articles_with_pagination, search_articles and               *)
(* get_article_with_relations.                                             *)
(*                                                                         *)
(* Text columns are sequences of one-character strings.  Rows are records  *)
(* holding the columns the queries and the foreign keys use.               *)
(***************************************************************************)
EXTENDS Integers, Sequences, FiniteSets, TLC

VARIABLES
    data_type,   \* DATA_TYPE, read once at import
    tables,      \* tables that exist in storage
    indexes,     \* indexes that exist in storage
    declared,    \* index name -> number of Index objects attached to Base.metadata
    users,       \* set of user_id
    articles,    \* set of article rows
    comments,    \* set of comment rows
    labels,      \* set of label rows
    deleted,     \* history: ids of the users and articles a user deletion removed
    relResult,   \* [article_id, value]: last return of get_article_with_relations
    call,        \* arguments of the paging caller and the page it asks for next
    result,      \* last return of get_articles_with_pagination / search_articles
    walk,        \* history: concatenation of the 'articles' lists returned so far
    sessions,    \* session id -> [owner, open, closes]
    callers      \* caller -> position inside a query helper

vars == <<data_type, tables, indexes, declared, users, articles, comments,
          labels, deleted, relResult, call, result, walk, sessions,
          callers>>

schemaVars == <<tables, indexes, declared>>
dataVars == <<users, articles, comments, labels, deleted>>
queryVars == <<call, result, walk>>
sessionVars == <<sessions, callers>>

----------------------------------------------------------------------------
(* Bounds of the model *)

MaxUsers == 2          \* user ids are 1..MaxUsers
MaxArticles == 2       \* article ids are 1..MaxArticles
MaxComments == 2       \* comment ids are 1..MaxComments
MaxLabels == 1         \* label ids are 1..MaxLabels
MaxCreateCalls == 2    \* create_tables is called at most this often
MaxListed == 3         \* articles in a database the listing is run on
MaxSearched == 2       \* articles in a database the search is run on
MaxPage == 3           \* page arguments are 1..MaxPage
MaxPageSize == 3       \* page_size arguments are 1..MaxPageSize
NumCallers == 2        \* concurrent callers of the query helpers
MaxSessions == 3       \* sessions the factory hands out

UserIds == 1..MaxUsers
ArticleIds == 1..MaxArticles
CommentIds == 1..MaxComments
LabelIds == 1..MaxLabels

None == "None"

----------------------------------------------------------------------------
(* Configuration *)

\* DATA_TYPE values: the default and one networked engine.
DataTypes == {"sqlite", "mysql"}

\* SQLite leaves foreign keys unenforced unless PRAGMA foreign_keys=ON is
\* issued on the connection; create_engine is called without it.
ForeignKeysEnforced == data_type # "sqlite"

----------------------------------------------------------------------------
(* Schema *)

AllTables == {"users", "articles", "comments", "labels"}

\* index name -> table of the indexed column
IndexTable ==
    [ idx_article_author       |-> "articles",
      idx_article_created_time |-> "articles",
      idx_article_title        |-> "articles",
      idx_comment_article      |-> "comments",
      idx_comment_author       |-> "comments",
      idx_comment_created_time |-> "comments",
      idx_label_article        |-> "labels",
      idx_label_name           |-> "labels",
      idx_user_email           |-> "users",
      idx_user_created_time    |-> "users" ]

IndexNames == DOMAIN IndexTable

\* Base.metadata.create_all(engine): checkfirst, so only the tables missing
\* from storage are created, each followed by CREATE INDEX for the Index
\* objects attached to it at that moment.  An existing table is skipped
\* together with its indexes.
CreateAll(missing) ==
    /\ tables' = tables \cup missing
    /\ indexes' = indexes \cup
           {n \in IndexNames : IndexTable[n] \in missing /\ declared[n] > 0}

\* create_indexes(): constructs ten Index objects; constructing one attaches
\* it to the table of its column in Base.metadata and issues no DDL.
create_indexes ==
    declared' = [n \in IndexNames |-> declared[n] + 1]

create_tables ==
    /\ \A n \in IndexNames : declared[n] < MaxCreateCalls
    /\ CreateAll(AllTables \ tables)
    /\ create_indexes
    /\ UNCHANGED <<data_type, dataVars, relResult, queryVars, sessionVars>>

----------------------------------------------------------------------------
(* Rows and the unit-of-work operations the mapped classes define *)

\* Article(...) added and committed.  The primary key must be unused; the
\* ForeignKey("users.user_id") is checked by the storage engine only.
AddArticle(id, title, content, author, time) ==
    /\ "articles" \in tables
    /\ \A a \in articles : a.article_id # id
    /\ ForeignKeysEnforced => author \in users
    /\ articles' = articles \cup
           {[article_id |-> id, article_title |-> title,
             article_content |-> content, article_author_id |-> author,
             article_created_time |-> time]}
    /\ UNCHANGED <<data_type, schemaVars, users, comments, labels, deleted,
                   relResult, queryVars, sessionVars>>

AddUser(id) ==
    /\ "users" \in tables
    /\ id \notin users
    /\ users' = users \cup {id}
    /\ UNCHANGED <<data_type, schemaVars, articles, comments, labels, deleted,
                   relResult, queryVars, sessionVars>>

AddComment(id, author, article) ==
    /\ "comments" \in tables
    /\ \A c \in comments : c.comment_id # id
    /\ ForeignKeysEnforced =>
           /\ author \in users
           /\ \E a \in articles : a.article_id = article
    /\ comments' = comments \cup
           {[comment_id |-> id, comment_author_id |-> author,
             comment_article_id |-> article]}
    /\ UNCHANGED <<data_type, schemaVars, users, articles, labels, deleted,
                   relResult, queryVars, sessionVars>>

AddLabel(id, article) ==
    /\ "labels" \in tables
    /\ \A l \in labels : l.label_id # id
    /\ ForeignKeysEnforced => \E a \in articles : a.article_id = article
    /\ labels' = labels \cup {[label_id |-> id, label_article_id |-> article]}
    /\ UNCHANGED <<data_type, schemaVars, users, articles, comments, deleted,
                   relResult, queryVars, sessionVars>>

\* relationship collections, loaded by foreign key
user_articles(u) == {a \in articles : a.article_author_id = u}
user_comments(u) == {c \in comments : c.comment_author_id = u}
article_comments(aid) == {c \in comments : c.comment_article_id = aid}
article_labels(aid) == {l \in labels : l.label_article_id = aid}

ArticleIdsOf(as) == {a.article_id : a \in as}

\* session.delete(article); commit: cascade="all, delete-orphan" on
\* article_comments and article_labels
DeleteArticle(id) ==
    /\ \E a \in articles : a.article_id = id
    /\ articles' = {a \in articles : a.article_id # id}
    /\ comments' = comments \ article_comments(id)
    /\ labels' = labels \ article_labels(id)
    /\ UNCHANGED <<data_type, schemaVars, users, deleted, relResult,
                   queryVars, sessionVars>>

\* session.delete(user); commit: cascade="all, delete-orphan" on
\* user_articles and user_comments, then on each article's collections
DeleteUser(u) ==
    /\ u \in users
    /\ LET gone == ArticleIdsOf(user_articles(u))
       IN  /\ users' = users \ {u}
           /\ articles' = articles \ user_articles(u)
           /\ comments' = (comments \ user_comments(u)) \
                              UNION {article_comments(aid) : aid \in gone}
           /\ labels' = labels \ UNION {article_labels(aid) : aid \in gone}
           /\ deleted' = [users |-> deleted.users \cup {u},
                          articles |-> deleted.articles \cup gone]
    /\ UNCHANGED <<data_type, schemaVars, relResult, queryVars, sessionVars>>

----------------------------------------------------------------------------
(* Initial values shared by the specifications *)

NoResult == [kind |-> "none"]
NoCall == [helper |-> "none", page |-> 1, page_size |-> 1, author_id |-> <<>>,
           keyword |-> <<>>]
RelNone == [is_none |-> TRUE]
NoRel == [article_id |-> 0, value |-> RelNone]

IdleCaller == [pc |-> "idle", db |-> 0, left |-> 0, outcome |-> None]

InitRest ==
    /\ relResult = NoRel
    /\ call = NoCall
    /\ result = NoResult
    /\ walk = <<>>
    /\ sessions = <<>>
    /\ callers = [c \in 1..NumCallers |-> IdleCaller]

\* A fresh database file and a freshly imported module.
Init ==
    /\ data_type \in DataTypes
    /\ tables = {}
    /\ indexes = {}
    /\ declared = [n \in IndexNames |-> 0]
    /\ users = {}
    /\ articles = {}
    /\ comments = {}
    /\ labels = {}
    /\ deleted = [users |-> {}, articles |-> {}]
    /\ InitRest

DefaultText == <<"a">>

Next ==
    \/ create_tables
    \/ \E id \in UserIds : AddUser(id)
    \/ \E id \in ArticleIds, u \in UserIds :
           AddArticle(id, DefaultText, DefaultText, u, 1)
    \/ \E id \in CommentIds, u \in UserIds, a \in ArticleIds :
           AddComment(id, u, a)
    \/ \E id \in LabelIds, a \in ArticleIds : AddLabel(id, a)
    \/ \E id \in ArticleIds : DeleteArticle(id)
    \/ \E u \in UserIds : DeleteUser(u)

Spec == Init /\ [][Next]_vars

----------------------------------------------------------------------------
(* get_article_with_relations *)

\* Variant: the comments are loaded through the wrong foreign key column.
get_article_with_relations_by_author(article_id) ==
    LET found == {a \in articles : a.article_id = article_id}
    IN  IF found # {}
        THEN [is_none |-> FALSE,
              article |-> CHOOSE a \in found : TRUE,
              comments |-> {c \in comments : c.comment_author_id = article_id},
              labels |-> {l \in labels : l.label_article_id = article_id}]
        ELSE RelNone

\* The value returned for article_id.  .first() yields the row with that
\* primary key or None; a mapped object is always truthy, so the branch is
\* taken exactly when a row was found.  The lists of .all() are modelled as
\* sets: no order is requested.
get_article_with_relations(article_id) ==
    LET found == {a \in articles : a.article_id = article_id}
    IN  IF found # {}
        THEN [is_none |-> FALSE,
              article |-> CHOOSE a \in found : TRUE,
              comments |-> {c \in comments : c.comment_article_id = article_id},
              labels |-> {l \in labels : l.label_article_id = article_id}]
        ELSE RelNone

GetArticleWithRelations(article_id) ==
    /\ relResult' = [article_id |-> article_id,
                     value |-> get_article_with_relations(article_id)]
    /\ UNCHANGED <<data_type, schemaVars, dataVars, queryVars, sessionVars>>

\* A provisioned database holding one user, under the default engine: it
\* checks no foreign key, so it accepts every insert another engine accepts.
InitRel ==
    /\ data_type = "sqlite"
    /\ tables = AllTables
    /\ indexes = {}
    /\ declared = [n \in IndexNames |-> 1]
    /\ users = {1}
    /\ articles = {}
    /\ comments = {}
    /\ labels = {}
    /\ deleted = [users |-> {}, articles |-> {}]
    /\ InitRest

NextRel ==
    \/ \E id \in ArticleIds : AddArticle(id, DefaultText, DefaultText, 1, 1)
    \/ \E id \in CommentIds, a \in ArticleIds : AddComment(id, 1, a)
    \/ \E id \in LabelIds, a \in ArticleIds : AddLabel(id, a)
    \/ \E id \in ArticleIds : DeleteArticle(id)
    \/ \E id \in ArticleIds : GetArticleWithRelations(id)

SpecRel == InitRel /\ [][NextRel]_vars

\* What a return value v for article_id must be, given the stored rows.
RelPost(article_id, v) ==
    /\ v.is_none <=> ~ \E a \in articles : a.article_id = article_id
    /\ ~ v.is_none =>
          /\ v.article \in articles
          /\ v.article.article_id = article_id
          /\ \A c \in comments :
                 c \in v.comments <=> c.comment_article_id = article_id
          /\ v.comments \subseteq comments
          /\ \A l \in labels :
                 l \in v.labels <=> l.label_article_id = article_id
          /\ v.labels \subseteq labels

\* C5: get_article_with_relations(article_id) returns None exactly when no
\* article row has that id; otherwise it returns that article with exactly
\* the comments whose comment_article_id is article_id and exactly the labels
\* whose label_article_id is article_id (empty collections when there are
\* none, never None).  The steps that leave the stored rows as they are are
\* the calls of the helper; each ends with such a value in relResult.
C5_Relations ==
    [][UNCHANGED dataVars =>
           RelPost(relResult'.article_id, relResult'.value)]_vars

\* An article with a comment and a label was fetched while another article
\* had a comment of its own.
C5_Witness ==
    /\ ~ relResult.value.is_none
    /\ relResult.value = get_article_with_relations(relResult.article_id)
    /\ relResult.value.comments # {}
    /\ relResult.value.labels # {}
    /\ comments \ relResult.value.comments # {}

----------------------------------------------------------------------------
(* C10, C7, C6: schema creation and referential integrity *)

\* C10: once create_tables has been called, storage holds all four tables
\* and all ten declared indexes, however often it is called.
C10_TablesAndIndexes ==
    (\E n \in IndexNames : declared[n] >= 1) =>
        /\ tables = AllTables
        /\ indexes = IndexNames

\* C7: no step stores an article whose article_author_id is not the id of
\* an existing user (such an insert is rejected and leaves the articles
\* unchanged), whatever the configured engine.
C7_ArticleAuthorChecked ==
    [][\A a \in articles' \ articles : a.article_author_id \in users]_vars

NoLongerUser(u) == u \in deleted.users /\ u \notin users
NoLongerArticle(aid) ==
    aid \in deleted.articles /\ aid \notin ArticleIdsOf(articles)

\* C6: no article, comment or label references a user or an article that a
\* user deletion removed and that no longer exists.
C6_NoReferenceToDeleted ==
    /\ \A a \in articles : ~ NoLongerUser(a.article_author_id)
    /\ \A c \in comments :
           /\ ~ NoLongerUser(c.comment_author_id)
           /\ ~ NoLongerArticle(c.comment_article_id)
    /\ \A l \in labels : ~ NoLongerArticle(l.label_article_id)

----------------------------------------------------------------------------
(* Text matching *)

\* LIKE compares ASCII letters without regard to case (SQLite's LIKE, and
\* MySQL's under its default collation).
Lower(c) == IF c = "A" THEN "a" ELSE IF c = "B" THEN "b" ELSE c

\* text LIKE pattern: % matches any run of characters, _ any one character;
\* no escape character is given.
RECURSIVE LikeMatch(_, _)
LikeMatch(pattern, text) ==
    IF pattern = <<>> THEN text = <<>>
    ELSE IF Head(pattern) = "%"
         THEN \/ LikeMatch(Tail(pattern), text)
              \/ text # <<>> /\ LikeMatch(pattern, Tail(text))
    ELSE IF Head(pattern) = "_"
         THEN text # <<>> /\ LikeMatch(Tail(pattern), Tail(text))
    ELSE /\ text # <<>>
         /\ Lower(Head(pattern)) = Lower(Head(text))
         /\ LikeMatch(Tail(pattern), Tail(text))

\* column.contains(keyword) without autoescape renders
\* column LIKE '%' || :keyword || '%' with the keyword bound as given.
contains(column, keyword) == LikeMatch(<<"%">> \o keyword \o <<"%">>, column)

----------------------------------------------------------------------------
(* Paginated queries *)

Min(a, b) == IF a < b THEN a ELSE b

\* Optional[int] arguments: <<>> is None, <<n>> is the integer n.
\* Python truthiness of such an argument: None and 0 are falsy.
Truthy(opt) == opt # <<>> /\ opt[1] # 0

ArticleById(id) == CHOOSE a \in articles : a.article_id = id

\* ORDER BY article_created_time DESC: the storage engine may return rows of
\* equal article_created_time in any order, chosen anew for every statement.
\* The set of the orders it may return, rows listed by primary key.
RECURSIVE OrderByCreatedTimeDesc(_)
OrderByCreatedTimeDesc(rows) ==
    IF rows = {} THEN {<<>>}
    ELSE LET latest == {r \in rows : \A q \in rows :
                           r.article_created_time >= q.article_created_time}
         IN  UNION {{<<r.article_id>> \o rest :
                        rest \in OrderByCreatedTimeDesc(rows \ {r})} :
                    r \in latest}

\* .offset(offset).limit(limit) applied to the ordered rows
OffsetLimit(s, offset, limit) ==
    SubSeq(s, offset + 1, Min(offset + limit, Len(s)))

\* Variant: floor division.
TotalPagesFloor(total, page_size) == total \div page_size

\* Variant: one page too many when page_size divides total.
TotalPagesPlusOne(total, page_size) == (total + page_size) \div page_size

\* (total + page_size - 1) // page_size
TotalPages(total, page_size) == (total + page_size - 1) \div page_size


\* db.query(Article), filtered by author only `if author_id:`
Listed(author_id) ==
    IF Truthy(author_id)
    THEN {a \in articles : a.article_author_id = author_id[1]}
    ELSE articles

\* The rows matched by search_articles: title OR content contains keyword.
Searched(keyword) ==
    {a \in articles :
        \/ contains(a.article_title, keyword)
        \/ contains(a.article_content, keyword)}

\* The dictionary both helpers return, for one order the engine chose.
PageOf(kind, rows, ordered, page, page_size) ==
    [kind |-> kind,
     articles |-> OffsetLimit(ordered, (page - 1) * page_size, page_size),
     total |-> Cardinality(rows),
     page |-> page,
     page_size |-> page_size,
     total_pages |-> TotalPages(Cardinality(rows), page_size)]

\* get_articles_with_pagination(call.page, call.page_size, call.author_id);
\* the caller then asks for the following page.
GetArticlesWithPagination ==
    /\ call.helper = "get_articles_with_pagination"
    /\ call.page <= MaxPage
    /\ \E ordered \in OrderByCreatedTimeDesc(Listed(call.author_id)) :
           /\ result' = PageOf("list", Listed(call.author_id), ordered,
                               call.page, call.page_size)
           /\ walk' = walk \o result'.articles
    /\ call' = [call EXCEPT !.page = @ + 1]
    /\ UNCHANGED <<data_type, schemaVars, dataVars, relResult, sessionVars>>

\* search_articles(call.keyword, call.page, call.page_size);
\* the caller then asks for the following page.
SearchArticles ==
    /\ call.helper = "search_articles"
    /\ call.page <= MaxPage
    /\ \E ordered \in OrderByCreatedTimeDesc(Searched(call.keyword)) :
           /\ result' = PageOf("search", Searched(call.keyword), ordered,
                               call.page, call.page_size)
           /\ walk' = walk \o result'.articles
    /\ call' = [call EXCEPT !.page = @ + 1]
    /\ UNCHANGED <<data_type, schemaVars, dataVars, relResult, sessionVars>>

\* Inputs of the query helpers
PageSizes == 1..MaxPageSize
AuthorFilters == {<<>>} \cup {<<n>> : n \in 0..2}
Keywords == {<<>>, <<"a">>, <<"b">>, <<"A">>, <<"_">>, <<"%">>,
             <<"b", "a">>, <<"a", "_">>}
Texts == {<<"a">>, <<"a", "b">>, <<"_">>}

ListedRow(i, v) ==
    [article_id |-> i, article_title |-> <<"a">>,
     article_content |-> <<"a">>, article_author_id |-> v[1],
     article_created_time |-> v[2]]

SearchedRow(i, v) ==
    [article_id |-> i, article_title |-> v[1], article_content |-> v[2],
     article_author_id |-> 1, article_created_time |-> i]

\* The article tables the helpers are run on: rows with distinct primary
\* keys, varying in author and created time, or in title and content.
ListedDatabases ==
    UNION {{{ListedRow(i, f[i]) : i \in P} : f \in [P -> (1..2) \X (1..2)]} :
              P \in SUBSET (1..MaxListed)}

SearchedDatabases ==
    UNION {{{SearchedRow(i, f[i]) : i \in P} : f \in [P -> Texts \X Texts]} :
              P \in SUBSET (1..MaxSearched)}

ListCalls ==
    {[helper |-> "get_articles_with_pagination", page |-> 1,
      page_size |-> ps, author_id |-> au, keyword |-> <<>>] :
         ps \in PageSizes, au \in AuthorFilters}

SearchCalls ==
    {[helper |-> "search_articles", page |-> 1, page_size |-> ps,
      author_id |-> <<>>, keyword |-> kw] :
         ps \in PageSizes, kw \in Keywords}

\* A provisioned database with two users, and a caller about to page through
\* the listing of a table whose rows vary in author and created time, or
\* through a search of a table whose rows vary in title and content.
InitQuery ==
    /\ data_type = "sqlite"
    /\ tables = AllTables
    /\ indexes = {}
    /\ declared = [n \in IndexNames |-> 1]
    /\ users = {1, 2}
    /\ \/ /\ articles \in ListedDatabases
          /\ call \in ListCalls
       \/ /\ articles \in SearchedDatabases
          /\ call \in SearchCalls
    /\ comments = {}
    /\ labels = {}
    /\ deleted = [users |-> {}, articles |-> {}]
    /\ relResult = NoRel
    /\ result = NoResult
    /\ walk = <<>>
    /\ sessions = <<>>
    /\ callers = [c \in 1..NumCallers |-> IdleCaller]

NextQuery ==
    \/ GetArticlesWithPagination
    \/ SearchArticles

SpecQuery == InitQuery /\ [][NextQuery]_vars

----------------------------------------------------------------------------
(* C1, C2, C3, C4, C9: the paginated queries *)

\* C1: every result of get_articles_with_pagination and of search_articles
\* has total_pages = ceil(total / page_size) and at most page_size articles.
C1_TotalPagesAndPageLength ==
    result.kind # "none" =>
        /\ result.page >= 1 /\ result.page_size > 0
        /\ result.total_pages * result.page_size >= result.total
        /\ (result.total_pages - 1) * result.page_size < result.total
        /\ Len(result.articles) <= result.page_size

\* The second of two pages of three articles, holding the one left over.
C1_Witness ==
    /\ result.kind = "list"
    /\ result.total = 3 /\ result.page_size = 2 /\ result.page = 2
    /\ result.total_pages = 2
    /\ Len(result.articles) = 1

AllPagesFetched == call.page = result.total_pages + 1

\* C2: once pages 1..total_pages of get_articles_with_pagination have been
\* fetched from an unchanged database, their concatenation is the matching
\* articles in article_created_time descending order, each exactly once,
\* also when created times are shared.
C2_PagesConcatenate ==
    (result.kind = "list" /\ AllPagesFetched) =>
        walk \in OrderByCreatedTimeDesc(Listed(call.author_id))

\* keyword occurs in text as a substring (letters compared as LIKE does)
IsSubstring(keyword, text) ==
    \E i \in 0..(Len(text) - Len(keyword)) :
        \A j \in 1..Len(keyword) : Lower(text[i + j]) = Lower(keyword[j])

HasKeyword(a, keyword) ==
    \/ IsSubstring(keyword, a.article_title)
    \/ IsSubstring(keyword, a.article_content)

\* C3: search_articles counts exactly the articles whose title or content
\* contains the keyword as a substring, and returns no other article.
C3_SearchIsSubstring ==
    result.kind = "search" =>
        /\ result.total =
               Cardinality({a \in articles : HasKeyword(a, call.keyword)})
        /\ \A i \in 1..Len(result.articles) :
               HasKeyword(ArticleById(result.articles[i]), call.keyword)

NoArticleMatches(keyword) ==
    \A a \in articles :
        /\ ~ contains(a.article_title, keyword)
        /\ ~ contains(a.article_content, keyword)

EmptyResult ==
    /\ result.articles = <<>>
    /\ result.total = 0
    /\ result.total_pages = 0

\* C4 as stated: an empty keyword, or a keyword that matches no article,
\* gives an empty 'articles' list, total = 0 and total_pages = 0.
C4_EmptyOrUnmatched ==
    (result.kind = "search" /\
     (call.keyword = <<>> \/ NoArticleMatches(call.keyword))) => EmptyResult

\* C4 as amended: a keyword that matches no article gives an empty
\* 'articles' list, total = 0 and total_pages = 0; the empty keyword matches
\* every article, so its total is the number of stored articles.
C4_UnmatchedIsEmpty ==
    result.kind = "search" =>
        /\ NoArticleMatches(call.keyword) => EmptyResult
        /\ call.keyword = <<>> => result.total = Cardinality(articles)

\* A non-empty keyword was searched in a non-empty table and matched nothing.
C4_Witness ==
    /\ result.kind = "search"
    /\ call.keyword # <<>>
    /\ articles # {}
    /\ NoArticleMatches(call.keyword)
    /\ result.total = 0

\* C9: with an author filter given (any integer, 0 included) the total and
\* the returned articles are those of that author; with None, all articles.
C9_AuthorFilter ==
    result.kind = "list" =>
        IF call.author_id # <<>>
        THEN /\ result.total =
                    Cardinality({a \in articles :
                                    a.article_author_id = call.author_id[1]})
             /\ \A i \in 1..Len(result.articles) :
                    ArticleById(result.articles[i]).article_author_id =
                        call.author_id[1]
        ELSE result.total = Cardinality(articles)

----------------------------------------------------------------------------
(* Session scope of the query helpers *)

Callers == 1..NumCallers
Helpers == {"get_articles_with_pagination", "search_articles",
            "get_article_with_relations"}

\* Statements a helper issues inside its try block before it returns:
\* count() and all(), or first() followed by two all() when a row was found.
Statements(helper, article_id) ==
    IF helper = "get_article_with_relations"
    THEN IF \E a \in articles : a.article_id = article_id THEN 3 ELSE 1
    ELSE 2

\* db = SessionLocal(): the factory builds a new Session on every call.
Call(c, helper, article_id) ==
    /\ callers[c].pc = "idle"
    /\ Len(sessions) < MaxSessions
    /\ sessions' = Append(sessions, [owner |-> c, open |-> TRUE, closes |-> 0])
    /\ callers' = [callers EXCEPT ![c] =
           [pc |-> "try", db |-> Len(sessions) + 1,
            left |-> Statements(helper, article_id), outcome |-> None]]
    /\ UNCHANGED <<data_type, schemaVars, dataVars, relResult, queryVars>>

\* The next statement of the try block runs; after the last one the return
\* statement is reached and control passes to the finally clause.
Query(c) ==
    /\ callers[c].pc = "try"
    /\ callers[c].left > 0
    /\ callers' = [callers EXCEPT ![c] =
           IF callers[c].left = 1
           THEN [@ EXCEPT !.pc = "finally", !.left = 0, !.outcome = "return"]
           ELSE [@ EXCEPT !.left = @ - 1]]
    /\ UNCHANGED <<data_type, schemaVars, dataVars, relResult, queryVars,
                   sessions>>

\* The next statement raises; control passes to the finally clause.
QueryRaises(c) ==
    /\ callers[c].pc = "try"
    /\ callers[c].left > 0
    /\ callers' = [callers EXCEPT ![c] =
           [@ EXCEPT !.pc = "finally", !.left = 0, !.outcome = "raise"]]
    /\ UNCHANGED <<data_type, schemaVars, dataVars, relResult, queryVars,
                   sessions>>

Closed(i) == [sessions EXCEPT ![i] = [@ EXCEPT !.open = FALSE,
                                                !.closes = @ + 1]]

\* Variant: close() sits at the end of the try block, not in a finally.
CloseOnReturnOnly(c) ==
    IF callers[c].outcome = "return" THEN Closed(callers[c].db) ELSE sessions

\* finally: db.close(), on the return path and on the raising path alike
CloseInFinally(c) == Closed(callers[c].db)

\* The finally clause runs and control goes back to the caller, which keeps
\* how the call ended.
Finally(c) ==
    /\ callers[c].pc = "finally"
    /\ sessions' = CloseInFinally(c)
    /\ callers' = [callers EXCEPT ![c] = [@ EXCEPT !.pc = "idle", !.db = 0]]
    /\ UNCHANGED <<data_type, schemaVars, dataVars, relResult, queryVars>>

\* A provisioned database with one user and one article.
InitSession ==
    /\ data_type \in DataTypes
    /\ tables = AllTables
    /\ indexes = {}
    /\ declared = [n \in IndexNames |-> 1]
    /\ users = {1}
    /\ articles = {ListedRow(1, <<1, 1>>)}
    /\ comments = {}
    /\ labels = {}
    /\ deleted = [users |-> {}, articles |-> {}]
    /\ InitRest

NextSession ==
    \/ \E c \in Callers, h \in Helpers, id \in ArticleIds : Call(c, h, id)
    \/ \E c \in Callers : Query(c)
    \/ \E c \in Callers : QueryRaises(c)
    \/ \E c \in Callers : Finally(c)

SpecSession == InitSession /\ [][NextSession]_vars

\* C8: a helper call works on a session of its own, created for it and open
\* while the call runs; when control is back with the caller, after a return
\* or a raise, every session a call of that caller acquired has been closed
\* exactly once; no session stays open outside a call and no two callers
\* hold the same session.
C8_SessionScope ==
    /\ \A c \in Callers :
           callers[c].pc # "idle" =>
               /\ callers[c].db \in DOMAIN sessions
               /\ sessions[callers[c].db].owner = c
               /\ sessions[callers[c].db].open
               /\ sessions[callers[c].db].closes = 0
    /\ \A i \in DOMAIN sessions :
           callers[sessions[i].owner].db # i =>
               ~ sessions[i].open /\ sessions[i].closes = 1
    /\ \A c, d \in Callers :
           (c # d /\ callers[c].pc # "idle" /\ callers[d].pc # "idle") =>
               callers[c].db # callers[d].db

\* One caller is back from a call whose query raised, its session closed
\* once, while another caller is inside a call with its own open session.
C8_Witness ==
    \E c, d \in Callers :
        /\ c # d
        /\ callers[c].pc = "idle" /\ callers[c].outcome = "raise"
        /\ \E i \in DOMAIN sessions :
               /\ sessions[i].owner = c
               /\ sessions[i].closes = 1 /\ ~ sessions[i].open
        /\ callers[d].pc = "try"
        /\ sessions[callers[d].db].open

====
